---- MODULE Spec2Model ----
(***************************************************************************)
(* Verification model of ARPatcherData: the escape transform of            *)
(* src/Escape.hpp and the DataChunk / PatchData codec of                   *)
(* src/PatchData.hpp.                                                      *)
(*                                                                         *)
(* Three specifications share the variables below:                         *)
(*   SpecEscape  findBestEscape, escape, unescape on bounded byte blobs    *)
(*   SpecChunk   the DataChunk constructor on machine words                *)
(*   SpecCodec   writeChunks followed by readChunks on a byte stream       *)
(***************************************************************************)
EXTENDS Integers, Sequences, FiniteSets, TLC

VARIABLES
  pc,            \* position of the run
  \* SpecEscape
  source,        \* the byte blob handed to findBestEscape and escape
  toBeEscaped,   \* the byte that must not occur in the escaped blob
  escapeData,    \* the EscapeData returned by findBestEscape
  escaped,       \* the result of escape
  unescaped,     \* the result of unescape
  decodeError,   \* the exception unescape ended with, "none" for a return
  \* SpecChunk
  ctorArgs,      \* the arguments of DataChunk(length, sourcePosition, data)
  ctorResult,    \* the constructed DataChunk, or the exception thrown
  \* SpecCodec
  patchData,     \* the PatchData handed to writeChunks
  written,       \* what writeChunks did: the exception thrown, the bytes written
  stream,        \* the bytes of the stream handed to readChunks
  origin,        \* where the stream comes from
  readResult     \* what readChunks did: the PatchData returned or the exception

varsEscape == <<source, toBeEscaped, escapeData, escaped, unescaped, decodeError>>
varsChunk == <<ctorArgs, ctorResult>>
varsCodec == <<patchData, written, stream, origin, readResult>>
vars == <<pc, varsEscape, varsChunk, varsCodec>>

----------------------------------------------------------------------------
(* Bounds of the escape model.                                             *)

\* Number of distinct byte values of the scaled-down alphabet 0..elementCount-1.
\* The program has 256; the selection and the transform treat byte values
\* uniformly, and a small alphabet lets the chosen bytes occur in the source.
elementCount == 4

\* Longest source blob.
MaxLen == 4

\* std::numeric_limits<std::size_t>::max(), the mask written over a frequency.
\* It only needs to exceed every attainable occurrence count.
SizeMax == 2147483647

ByteValue == 0 .. (elementCount - 1)

RECURSIVE SeqsUpTo(_, _)
SeqsUpTo(S, n) ==
  IF n = 0 THEN { <<>> }
  ELSE LET shorter == SeqsUpTo(S, n - 1)
       IN  shorter \cup { Append(s, b) : s \in { t \in shorter : Len(t) = n - 1 }, b \in S }

Blobs == SeqsUpTo(ByteValue, MaxLen)

----------------------------------------------------------------------------
(* src/Escape.hpp                                                          *)

\* A value-initialized EscapeData.
NoEscapeData ==
  [toBeEscaped |-> 0, substituteCharacter |-> 0, escape |-> 0, escape2 |-> 0,
   estimatedNewSize |-> 0]

\* std::count(first, last, value)
RECURSIVE count(_, _)
count(s, value) ==
  IF s = <<>> THEN 0
  ELSE (IF Head(s) = value THEN 1 ELSE 0) + count(Tail(s), value)

\* Mutation of min_element: the last position holding the smallest value.
min_element_last(frequencies) ==
  CHOOSE i \in DOMAIN frequencies :
    \A j \in DOMAIN frequencies :
      \/ frequencies[i] < frequencies[j]
      \/ frequencies[i] = frequencies[j] /\ i >= j

\* std::min_element over the frequency array: the first position holding the
\* smallest value.
min_element(frequencies) ==
  CHOOSE i \in DOMAIN frequencies :
    \A j \in DOMAIN frequencies :
      \/ frequencies[i] < frequencies[j]
      \/ frequencies[i] = frequencies[j] /\ i <= j

\* Mutation of recalculateEstimatedNewSize: the escape byte is not counted.
recalculateEstimatedNewSize_noEscape(self, newSource) ==
  [self EXCEPT !.estimatedNewSize =
     Len(newSource) + count(newSource, self.substituteCharacter)]

\* EscapeData::recalculateEstimatedNewSize
recalculateEstimatedNewSize(self, newSource) ==
  [self EXCEPT !.estimatedNewSize =
     Len(newSource) + count(newSource, self.substituteCharacter)
                    + count(newSource, self.escape)]

\* Mutation of findBestEscape: the frequency of toBeEscaped is not masked.
findBestEscape_noMask(src, tbe) ==
  LET f0      == [v \in ByteValue |-> count(src, v)]
      min     == min_element(f0)
      f1      == [f0 EXCEPT ![min] = SizeMax]
      second  == min_element(f1)
      f2      == [f1 EXCEPT ![second] = SizeMax]
      third   == min_element(f2)
      result  == [toBeEscaped |-> tbe, substituteCharacter |-> min,
                  escape |-> second, escape2 |-> third, estimatedNewSize |-> 0]
  IN  recalculateEstimatedNewSize(result, src)

\* findBestEscape(source, toBeEscaped)
findBestEscape(src, tbe) ==
  LET counted == [v \in ByteValue |-> count(src, v)]
      f0      == [counted EXCEPT ![tbe] = SizeMax]
      min     == min_element(f0)
      f1      == [f0 EXCEPT ![min] = SizeMax]
      second  == min_element(f1)
      f2      == [f1 EXCEPT ![second] = SizeMax]
      third   == min_element(f2)
      result  == [toBeEscaped |-> tbe, substituteCharacter |-> min,
                  escape |-> second, escape2 |-> third, estimatedNewSize |-> 0]
  IN  recalculateEstimatedNewSize(result, src)

\* Mutation of escapeElement: a source byte equal to escape is not doubled.
escapeElement_noDoubling(element, ed) ==
  IF element = ed.toBeEscaped THEN << ed.substituteCharacter >>
  ELSE IF element = ed.substituteCharacter THEN << ed.escape, ed.escape2 >>
  ELSE << element >>

\* The bytes escape() emits for one source element.
escapeElement(element, ed) ==
  IF element = ed.toBeEscaped THEN << ed.substituteCharacter >>
  ELSE IF element = ed.substituteCharacter THEN << ed.escape, ed.escape2 >>
  ELSE IF element = ed.escape THEN << element, ed.escape >>
  ELSE << element >>

\* escape(source, escapeData)
RECURSIVE escape(_, _)
escape(src, ed) ==
  IF src = <<>> THEN <<>>
  ELSE escapeElement(Head(src), ed) \o escape(Tail(src), ed)

\* One iteration of the loop of unescape(): st = [result, escapeOn].
unescapeElement(element, ed, st) ==
  IF st.escapeOn
  THEN IF element = ed.escape
       THEN [result |-> Append(st.result, ed.escape), escapeOn |-> FALSE]
       ELSE IF element = ed.escape2
       THEN [result |-> Append(st.result, ed.substituteCharacter), escapeOn |-> FALSE]
       ELSE [result |-> st.result, escapeOn |-> FALSE]
  ELSE IF element = ed.escape
       THEN [result |-> st.result, escapeOn |-> TRUE]
  ELSE IF element = ed.substituteCharacter
       THEN [result |-> Append(st.result, ed.toBeEscaped), escapeOn |-> FALSE]
  ELSE [result |-> Append(st.result, element), escapeOn |-> FALSE]

RECURSIVE unescapeLoop(_, _, _)
unescapeLoop(esc, ed, st) ==
  IF esc = <<>> THEN st
  ELSE unescapeLoop(Tail(esc), ed, unescapeElement(Head(esc), ed, st))

\* unescape(escaped, escapeData): the function has no failing path, it always
\* returns the bytes collected by the loop.
unescape(esc, ed) ==
  unescapeLoop(esc, ed, [result |-> <<>>, escapeOn |-> FALSE]).result

----------------------------------------------------------------------------
(* src/PatchData.hpp: DataChunk                                            *)

\* A std::size_t is modelled as four 16-bit limbs and a std::uint32_t as two,
\* least significant first: the values exceed the integers of TLC.
LimbBase == 256 * 256
LimbMax == LimbBase - 1

\* Limb values the arguments are drawn from.
LimbSamples == {0, 1, LimbMax}

SizeWords == [1 .. 4 -> LimbSamples]

\* (std::numeric_limits<std::uint32_t>::max)() converted to std::size_t
UInt32MaxAsSize == <<LimbMax, LimbMax, 0, 0>>

\* static_cast<std::size_t>(-1)
SizeMinusOne == <<LimbMax, LimbMax, LimbMax, LimbMax>>

\* static_cast<std::uint32_t>(-1)
UInt32MinusOne == <<LimbMax, LimbMax>>

\* a > b on words of the same width: the most significant differing limb decides.
WordGreater(a, b) ==
  \E i \in DOMAIN a :
    /\ a[i] > b[i]
    /\ \A j \in DOMAIN a : j > i => a[j] = b[j]

\* static_cast<std::uint32_t>(word): the value modulo 2^32, the two low limbs.
ToUInt32(word) == <<word[1], word[2]>>

\* Mutation of DataChunkCtor: the literal sentinel is not exempted.
DataChunkCtor_noSentinel(length, sourcePosition, data) ==
  IF WordGreater(length, UInt32MaxAsSize)
  THEN [thrown |-> "std::length_error", what |-> "length too large!"]
  ELSE IF WordGreater(sourcePosition, UInt32MaxAsSize)
  THEN [thrown |-> "std::length_error", what |-> "sourcePosition too large!"]
  ELSE [thrown |-> "none",
        chunk |-> [length |-> ToUInt32(length),
                   sourcePosition |-> ToUInt32(sourcePosition),
                   data |-> data]]

\* DataChunk::DataChunk(length, sourcePosition, data)
DataChunkCtor(length, sourcePosition, data) ==
  IF WordGreater(length, UInt32MaxAsSize)
  THEN [thrown |-> "std::length_error", what |-> "length too large!"]
  ELSE IF /\ WordGreater(sourcePosition, UInt32MaxAsSize)
          /\ sourcePosition # SizeMinusOne
  THEN [thrown |-> "std::length_error", what |-> "sourcePosition too large!"]
  ELSE [thrown |-> "none",
        chunk |-> [length |-> ToUInt32(length),
                   sourcePosition |-> ToUInt32(sourcePosition),
                   data |-> data]]

NoCtorArgs == [length |-> <<0, 0, 0, 0>>, sourcePosition |-> <<0, 0, 0, 0>>, data |-> <<>>]
NoCtorResult == [thrown |-> "none", chunk |-> [length |-> <<0, 0>>, sourcePosition |-> <<0, 0>>, data |-> <<>>]]

----------------------------------------------------------------------------
(* src/PatchData.hpp: the patch file codec                                 *)

latestPatchDataVersion == 1000

\* supportedVersion of writeChunks and of readChunks
supportedVersion == 1000

CHAR_BIT == 8

\* The UTF-8 bytes of patchFileHeader.
patchFileHeader ==
  << 231, 186, 162, 232, 173, 166, 51, 229, 144, 167, 232, 163, 133, 231, 148,
     178, 229, 134, 178, 229, 135, 187, 230, 155, 180, 230, 150, 176, 230, 143,
     143, 232, 191, 176, 230, 150, 135, 228, 187, 182 >>

\* "\r\n"
delimiter == <<13, 10>>

\* PatchData{}
DefaultPatchData ==
  [version |-> 0, oldFileName |-> <<>>, newFileName |-> <<>>,
   escapeData |-> NoEscapeData, dataChunks |-> <<>>]

\* ---- writing ----

\* operator<< of an integer that is not negative: its decimal digits.
RECURSIVE Decimal(_)
Decimal(n) ==
  IF n < 10 THEN << 48 + n >>
  ELSE Decimal(n \div 10) \o << 48 + (n % 10) >>

\* static_cast<unsigned char>(value >> shift) on a std::uint32_t
ShiftedByte(value, shift) ==
  LET limb   == value[(shift \div 16) + 1]
      within == shift % 16
  IN  (limb \div (2 ^ within)) % 256

\* writeLittleEndianUInt32(out, value): the four bytes appended to out.
writeLittleEndianUInt32(value) ==
  [i \in 1 .. 4 |-> ShiftedByte(value, (i - 1) * CHAR_BIT)]

\* The value of a std::uint32_t that fits the integers of TLC.
UInt32ToNat(value) == value[1] + value[2] * LimbBase

\* The bytes the loop of writeChunks appends for one chunk. out.write copies
\* chunk.length bytes starting at chunk.data.data().
writeChunk(chunk) ==
  writeLittleEndianUInt32(chunk.length)
    \o writeLittleEndianUInt32(chunk.sourcePosition)
    \o (IF chunk.sourcePosition = UInt32MinusOne
        THEN SubSeq(chunk.data, 1, UInt32ToNat(chunk.length))
        ELSE <<>>)

RECURSIVE writeChunkLoop(_)
writeChunkLoop(chunks) ==
  IF chunks = <<>> THEN <<>>
  ELSE writeChunk(Head(chunks)) \o writeChunkLoop(Tail(chunks))

\* writeChunks(out, patchData): the exception thrown and the bytes written.
writeChunks(pd) ==
  IF pd.version # supportedVersion
  THEN [thrown |-> "std::invalid_argument", out |-> <<>>]
  ELSE [thrown |-> "none",
        out |->
          patchFileHeader \o Decimal(pd.version) \o delimiter
          \o Decimal(Len(pd.oldFileName)) \o delimiter
          \o pd.oldFileName \o delimiter
          \o Decimal(Len(pd.newFileName)) \o delimiter
          \o pd.newFileName \o delimiter
          \o Decimal(pd.escapeData.toBeEscaped) \o delimiter
          \o Decimal(pd.escapeData.substituteCharacter) \o delimiter
          \o Decimal(pd.escapeData.escape) \o delimiter
          \o Decimal(pd.escapeData.escape2) \o delimiter
          \o Decimal(Len(pd.dataChunks)) \o delimiter
          \o writeChunkLoop(pd.dataChunks)]

\* ---- the input stream ----
\* An input stream is [bytes, pos, eofbit, failbit]; pos is the next byte to
\* read. readChunks sets exceptions(badbit | failbit) and noskipws, so setting
\* failbit throws std::ios_base::failure and no extraction skips whitespace.

OpenStream(bytes) == [bytes |-> bytes, pos |-> 1, eofbit |-> FALSE, failbit |-> FALSE]

good(in) == ~ in.eofbit /\ ~ in.failbit

\* in.get(): one byte, or failbit (with eofbit at the end of the stream).
get(in) ==
  IF ~ good(in)
  THEN [in |-> [in EXCEPT !.failbit = TRUE], c |-> -1]
  ELSE IF in.pos > Len(in.bytes)
  THEN [in |-> [in EXCEPT !.eofbit = TRUE, !.failbit = TRUE], c |-> -1]
  ELSE [in |-> [in EXCEPT !.pos = @ + 1], c |-> in.bytes[in.pos]]

IsSpace(b) == b \in {9, 10, 11, 12, 13, 32}

RECURSIVE SkipSpace(_, _)
SkipSpace(bytes, i) ==
  IF i > Len(bytes) \/ ~ IsSpace(bytes[i]) THEN i
  ELSE SkipSpace(bytes, i + 1)

\* Mutation of ExtractChar: the stream still has skipws set.
ExtractChar_skipws(in) ==
  get([in EXCEPT !.pos = SkipSpace(in.bytes, in.pos)])

\* in >> input for an unsigned char: the stream has noskipws set, so the next
\* byte is extracted whatever it is; failbit at the end of the stream.
ExtractChar(in) ==
  IF ~ good(in)
  THEN [in |-> [in EXCEPT !.failbit = TRUE], c |-> 0]
  ELSE IF in.pos > Len(in.bytes)
  THEN [in |-> [in EXCEPT !.eofbit = TRUE, !.failbit = TRUE], c |-> 0]
  ELSE [in |-> [in EXCEPT !.pos = @ + 1], c |-> in.bytes[in.pos]]

\* Mutation of read: a short read is not reported.
read_short(in, n) ==
  LET end == IF in.pos + n - 1 > Len(in.bytes) THEN Len(in.bytes) ELSE in.pos + n - 1
  IN  [in |-> [in EXCEPT !.pos = end + 1],
       data |-> SubSeq(in.bytes, in.pos, end)]

\* in.read(buffer, n): n bytes, or failbit and eofbit when fewer are left.
read(in, n) ==
  IF ~ good(in)
  THEN [in |-> [in EXCEPT !.failbit = TRUE], data |-> <<>>]
  ELSE IF in.pos + n - 1 > Len(in.bytes)
  THEN [in |-> [in EXCEPT !.pos = Len(in.bytes) + 1, !.eofbit = TRUE, !.failbit = TRUE],
        data |-> SubSeq(in.bytes, in.pos, Len(in.bytes))]
  ELSE [in |-> [in EXCEPT !.pos = @ + n],
        data |-> SubSeq(in.bytes, in.pos, in.pos + n - 1)]

\* ---- std::num_get, base 10 ----

IsDigit(b) == b >= 48 /\ b <= 57

RECURSIVE DigitRunEnd(_, _)
DigitRunEnd(bytes, i) ==
  IF i > Len(bytes) \/ ~ IsDigit(bytes[i]) THEN i
  ELSE DigitRunEnd(bytes, i + 1)

RECURSIVE StripZeros(_)
StripZeros(digits) ==
  IF digits # <<>> /\ Head(digits) = 0 THEN StripZeros(Tail(digits)) ELSE digits

\* a > b on digit strings without leading zeros.
DigitsGreater(a, b) ==
  \/ Len(a) > Len(b)
  \/ /\ Len(a) = Len(b)
     /\ \E i \in 1 .. Len(a) :
          /\ a[i] > b[i]
          /\ \A j \in 1 .. (i - 1) : a[j] = b[j]

\* The value of a digit string, taken with the given sign (1 or -1).
RECURSIVE DigitsToInt(_, _)
DigitsToInt(digits, sign) ==
  IF digits = <<>> THEN 0
  ELSE DigitsToInt(SubSeq(digits, 1, Len(digits) - 1), sign) * 10
         + sign * digits[Len(digits)]

\* The digits of the largest int, of the magnitude of the smallest int, of the
\* largest unsigned and of the largest std::size_t (64 bits).
IntMaxDigits == <<2, 1, 4, 7, 4, 8, 3, 6, 4, 7>>
IntMinDigits == <<2, 1, 4, 7, 4, 8, 3, 6, 4, 8>>
UnsignedMaxDigits == <<4, 2, 9, 4, 9, 6, 7, 2, 9, 5>>
SizeMaxDigits == <<1, 8, 4, 4, 6, 7, 4, 4, 0, 7, 3, 7, 0, 9, 5, 5, 1, 6, 1, 5>>

\* The characters num_get accumulates: an optional sign, then decimal digits up
\* to the first other byte or the end of the stream (which sets eofbit).
ScanInteger(in) ==
  LET bytes  == in.bytes
      signed == in.pos <= Len(bytes) /\ bytes[in.pos] \in {43, 45}
      first  == IF signed THEN in.pos + 1 ELSE in.pos
      end    == DigitRunEnd(bytes, first)
  IN  [negative |-> signed /\ bytes[in.pos] = 45,
       found    |-> end > first,
       digits   |-> StripZeros([k \in 1 .. (end - first) |-> bytes[first + k - 1] - 48]),
       in       |-> [in EXCEPT !.pos = end, !.eofbit = (end > Len(bytes))]]

\* in >> int: failbit when no digit is found or the value does not fit an int.
ExtractInt(in) ==
  IF ~ good(in)
  THEN [in |-> [in EXCEPT !.failbit = TRUE], value |-> 0]
  ELSE LET s == ScanInteger(in)
       IN  IF ~ s.found
           THEN [in |-> [s.in EXCEPT !.failbit = TRUE], value |-> 0]
           ELSE IF DigitsGreater(s.digits, IF s.negative THEN IntMinDigits ELSE IntMaxDigits)
           THEN [in |-> [s.in EXCEPT !.failbit = TRUE],
                 value |-> DigitsToInt(IF s.negative THEN IntMinDigits ELSE IntMaxDigits,
                                       IF s.negative THEN -1 ELSE 1)]
           ELSE [in |-> s.in,
                 value |-> DigitsToInt(s.digits, IF s.negative THEN -1 ELSE 1)]

\* in >> an unsigned type whose largest value has the digits maxDigits. The
\* value is returned as its digits; wrapped tells that a minus sign made a
\* non-zero value wrap around to 2^w - value.
ExtractUnsigned(in, maxDigits) ==
  IF ~ good(in)
  THEN [in |-> [in EXCEPT !.failbit = TRUE], digits |-> <<>>, wrapped |-> FALSE]
  ELSE LET s == ScanInteger(in)
       IN  IF ~ s.found \/ DigitsGreater(s.digits, maxDigits)
           THEN [in |-> [s.in EXCEPT !.failbit = TRUE], digits |-> <<>>, wrapped |-> FALSE]
           ELSE [in |-> s.in, digits |-> s.digits,
                 wrapped |-> s.negative /\ s.digits # <<>>]

\* ---- errors ----

NoError == [type |-> "none", what |-> ""]

HeaderNotFound ==
  [type |-> "std::invalid_argument", what |-> "Required patch file header not found!"]

UnsupportedVersionError ==
  [type |-> "std::invalid_argument",
   what |-> "Unsupported patch data version! You may need to get a newer version of this program."]

InputTooLarge == [type |-> "std::domain_error", what |-> "Input value too large"]

\* std::ios_base::failure, thrown when an operation sets failbit.
StreamFailure(in) ==
  [type |-> "std::ios_base::failure",
   what |-> IF in.eofbit THEN "failbit eofbit" ELSE "failbit"]

\* A container asked for more than 10^9 elements: std::length_error or
\* std::bad_alloc. No stream of the model asks for that many.
AllocationFailure == [type |-> "std::bad_alloc", what |-> "allocation"]

\* ---- reading ----
\* The state of readChunks is rs = [in, patchData, error]; every step leaves
\* rs alone once an exception is under way (error # NoError).

\* The number of elements a parsed std::size_t or std::uint32_t asks for, -1
\* when it is beyond 10^9.
ElementCount(u) ==
  IF u.wrapped \/ Len(u.digits) > 9 THEN -1 ELSE DigitsToInt(u.digits, 1)

\* checkHeader(in, check)
RECURSIVE checkHeader(_, _)
checkHeader(rs, check) ==
  IF rs.error # NoError \/ check = <<>> THEN rs
  ELSE LET g == get(rs.in)
       IN  IF g.in.failbit
           THEN [rs EXCEPT !.in = g.in, !.error = StreamFailure(g.in)]
           ELSE IF g.c # Head(check)
           THEN [rs EXCEPT !.in = g.in, !.error = HeaderNotFound]
           ELSE checkHeader([rs EXCEPT !.in = g.in], Tail(check))

\* in >> patchData.version and the comparison with supportedVersion
readVersion(rs) ==
  IF rs.error # NoError THEN rs
  ELSE LET x == ExtractInt(rs.in)
       IN  IF x.in.failbit
           THEN [rs EXCEPT !.in = x.in, !.error = StreamFailure(x.in)]
           ELSE IF x.value # supportedVersion
           THEN [rs EXCEPT !.in = x.in, !.patchData.version = x.value,
                           !.error = UnsupportedVersionError]
           ELSE [rs EXCEPT !.in = x.in, !.patchData.version = x.value]

\* A file name: readSizeType, the string of that size, the delimiter, in.read
\* of the bytes, u8path (the path is kept as its UTF-8 bytes), the delimiter.
readFileName(rs, field) ==
  IF rs.error # NoError THEN rs
  ELSE LET u == ExtractUnsigned(rs.in, SizeMaxDigits)
           n == ElementCount(u)
       IN  IF u.in.failbit
           THEN [rs EXCEPT !.in = u.in, !.error = StreamFailure(u.in)]
           ELSE IF n < 0
           THEN [rs EXCEPT !.in = u.in, !.error = AllocationFailure]
           ELSE LET d == checkHeader([rs EXCEPT !.in = u.in], delimiter)
                    r == read(d.in, n)
                IN  IF d.error # NoError THEN d
                    ELSE IF r.in.failbit
                    THEN [d EXCEPT !.in = r.in, !.error = StreamFailure(r.in)]
                    ELSE checkHeader([d EXCEPT !.in = r.in, !.patchData[field] = r.data],
                                     delimiter)

\* readUnsignedInt8Bit(in) into a field of escapeData, then the delimiter
readEscapeByte(rs, field) ==
  IF rs.error # NoError THEN rs
  ELSE LET u == ExtractUnsigned(rs.in, UnsignedMaxDigits)
       IN  IF u.in.failbit
           THEN [rs EXCEPT !.in = u.in, !.error = StreamFailure(u.in)]
           ELSE IF u.wrapped \/ DigitsGreater(u.digits, <<2, 5, 5>>)
           THEN [rs EXCEPT !.in = u.in, !.error = InputTooLarge]
           ELSE checkHeader([rs EXCEPT !.in = u.in,
                                       !.patchData.escapeData[field] = DigitsToInt(u.digits, 1)],
                            delimiter)

\* Bitwise or of two values below 2^16.
RECURSIVE BitOr(_, _)
BitOr(a, b) ==
  IF a = 0 THEN b
  ELSE IF b = 0 THEN a
  ELSE (IF a % 2 = 1 \/ b % 2 = 1 THEN 1 ELSE 0) + 2 * BitOr(a \div 2, b \div 2)

\* result | (input << shift) on a std::uint32_t
OrShifted(result, input, shift) ==
  LET k == (shift \div 16) + 1
  IN  [result EXCEPT ![k] = BitOr(@, input * (2 ^ (shift % 16)))]

\* readLittleEndianUInt32(in): [in, value]; in.failbit tells that it threw.
RECURSIVE readLittleEndianLoop(_, _, _)
readLittleEndianLoop(in, result, i) ==
  IF i = 4 THEN [in |-> in, value |-> result]
  ELSE LET g == ExtractChar(in)
       IN  IF g.in.failbit THEN [in |-> g.in, value |-> result]
           ELSE readLittleEndianLoop(g.in, OrShifted(result, g.c, i * CHAR_BIT), i + 1)

readLittleEndianUInt32(in) == readLittleEndianLoop(in, <<0, 0>>, 0)

\* The body of the loop over patchData.dataChunks for one chunk.
readChunk(rs) ==
  LET l == readLittleEndianUInt32(rs.in)
      p == readLittleEndianUInt32(l.in)
      n == IF l.value[2] # 0 THEN -1 ELSE l.value[1]
      r == read(p.in, n)
  IN  IF l.in.failbit
      THEN [rs EXCEPT !.in = l.in, !.error = StreamFailure(l.in)]
      ELSE IF p.in.failbit
      THEN [rs EXCEPT !.in = p.in, !.error = StreamFailure(p.in)]
      ELSE IF p.value # UInt32MinusOne
      THEN [rs EXCEPT !.in = p.in,
                      !.patchData.dataChunks =
                         Append(@, [length |-> l.value, sourcePosition |-> p.value, data |-> <<>>])]
      ELSE IF n < 0
      THEN [rs EXCEPT !.in = p.in, !.error = AllocationFailure]
      ELSE IF r.in.failbit
      THEN [rs EXCEPT !.in = r.in, !.error = StreamFailure(r.in)]
      ELSE [rs EXCEPT !.in = r.in,
                      !.patchData.dataChunks =
                         Append(@, [length |-> l.value, sourcePosition |-> p.value, data |-> r.data])]

RECURSIVE readChunkLoop(_, _)
readChunkLoop(rs, remaining) ==
  IF rs.error # NoError \/ remaining = 0 THEN rs
  ELSE readChunkLoop(readChunk(rs), remaining - 1)

\* patchData.dataChunks.resize(readSizeType(in)), the delimiter and the loop
readDataChunks(rs) ==
  IF rs.error # NoError THEN rs
  ELSE LET u == ExtractUnsigned(rs.in, SizeMaxDigits)
           n == ElementCount(u)
       IN  IF u.in.failbit
           THEN [rs EXCEPT !.in = u.in, !.error = StreamFailure(u.in)]
           ELSE IF n < 0
           THEN [rs EXCEPT !.in = u.in, !.error = AllocationFailure]
           ELSE readChunkLoop(checkHeader([rs EXCEPT !.in = u.in], delimiter), n)

\* readChunks(in): the PatchData returned when error = NoError, else the
\* exception thrown.
readChunks(bytes) ==
  LET rs0 == [in |-> OpenStream(bytes), patchData |-> DefaultPatchData, error |-> NoError]
      rs1 == checkHeader(readVersion(checkHeader(rs0, patchFileHeader)), delimiter)
      rs2 == readFileName(readFileName(rs1, "oldFileName"), "newFileName")
      rs3 == readEscapeByte(readEscapeByte(rs2, "toBeEscaped"), "substituteCharacter")
      rs4 == readEscapeByte(readEscapeByte(rs3, "escape"), "escape2")
      rs5 == readDataChunks(rs4)
  IN  [patchData |-> rs5.patchData, error |-> rs5.error, consumed |-> rs5.in.pos - 1]

NoWritten == [thrown |-> "none", out |-> <<>>]
NoReadResult == [patchData |-> DefaultPatchData, error |-> NoError, consumed |-> 0]

\* The codec's variables in the specifications that do not use them.
CodecIdle ==
  /\ patchData = DefaultPatchData
  /\ written = NoWritten
  /\ stream = <<>>
  /\ origin = "none"
  /\ readResult = NoReadResult

----------------------------------------------------------------------------
(* SpecEscape                                                              *)

InitEscape ==
  /\ pc = "start"
  /\ source \in Blobs
  /\ toBeEscaped \in ByteValue
  /\ escapeData = NoEscapeData
  /\ escaped = <<>>
  /\ unescaped = <<>>
  /\ decodeError = "none"
  /\ ctorArgs = NoCtorArgs
  /\ ctorResult = NoCtorResult
  /\ CodecIdle

\* escapeData = findBestEscape(source, toBeEscaped)
FindBestEscape ==
  /\ pc = "start"
  /\ escapeData' = findBestEscape(source, toBeEscaped)
  /\ pc' = "found"
  /\ UNCHANGED <<source, toBeEscaped, escaped, unescaped, decodeError>>
  /\ UNCHANGED <<varsChunk, varsCodec>>

\* escaped = escape(source, escapeData)
Escape ==
  /\ pc = "found"
  /\ escaped' = escape(source, escapeData)
  /\ pc' = "escaped"
  /\ UNCHANGED <<source, toBeEscaped, escapeData, unescaped, decodeError>>
  /\ UNCHANGED <<varsChunk, varsCodec>>

\* unescaped = unescape(escaped, escapeData)
Unescape ==
  /\ pc = "escaped"
  /\ unescaped' = unescape(escaped, escapeData)
  /\ decodeError' = "none"
  /\ pc' = "unescaped"
  /\ UNCHANGED <<source, toBeEscaped, escapeData, escaped>>
  /\ UNCHANGED <<varsChunk, varsCodec>>

\* unescape applied to a blob that did not come out of escape(): the source
\* blob itself is handed to unescape as the escaped stream.
UnescapeForeign ==
  /\ pc = "found"
  /\ unescaped' = unescape(source, escapeData)
  /\ decodeError' = "none"
  /\ pc' = "decoded"
  /\ UNCHANGED <<source, toBeEscaped, escapeData, escaped>>
  /\ UNCHANGED <<varsChunk, varsCodec>>

NextEscape == FindBestEscape \/ Escape \/ Unescape \/ UnescapeForeign

SpecEscape == InitEscape /\ [][NextEscape]_vars

----------------------------------------------------------------------------
(* SpecChunk                                                               *)

InitChunk ==
  /\ pc = "construct"
  /\ ctorArgs \in [length : SizeWords, sourcePosition : SizeWords, data : {<<>>, <<0>>}]
  /\ ctorResult = NoCtorResult
  /\ source = <<>>
  /\ toBeEscaped = 0
  /\ escapeData = NoEscapeData
  /\ escaped = <<>>
  /\ unescaped = <<>>
  /\ decodeError = "none"
  /\ CodecIdle

\* ctorResult = DataChunk(length, sourcePosition, data)
Construct ==
  /\ pc = "construct"
  /\ ctorResult' = DataChunkCtor(ctorArgs.length, ctorArgs.sourcePosition, ctorArgs.data)
  /\ pc' = "constructed"
  /\ UNCHANGED ctorArgs
  /\ UNCHANGED <<varsEscape, varsCodec>>

NextChunk == Construct

SpecChunk == InitChunk /\ [][NextChunk]_vars

----------------------------------------------------------------------------
(* SpecCodec                                                               *)

\* Bound of the codec model: the path bytes, chunks and payload bytes of a
\* PatchData together.
MaxSize == 3

\* Bytes of file names: CR and the digit 0.
PathBytes == {13, 48}

\* Bytes of literal payloads: LF and the digit 9.
PayloadBytes == {10, 57}

\* Reference chunks: a length whose low byte is a space; a length made of the
\* bytes 0D 0A 30 09 with the sourcePosition 0xFFFEFFFF next to the sentinel.
ReferenceSamples ==
  { [length |-> <<32, 0>>, sourcePosition |-> <<0, 0>>, data |-> <<>>],
    [length |-> <<13 + 256 * 10, 48 + 256 * 9>>,
     sourcePosition |-> <<LimbMax, LimbMax - 1>>, data |-> <<>>] }

LiteralChunk(data) ==
  [length |-> <<Len(data), 0>>, sourcePosition |-> UInt32MinusOne, data |-> data]

EscapeSamples ==
  { [toBeEscaped |-> 0, substituteCharacter |-> 1, escape |-> 2, escape2 |-> 3,
     estimatedNewSize |-> 0],
    [toBeEscaped |-> 255, substituteCharacter |-> 48, escape |-> 13, escape2 |-> 10,
     estimatedNewSize |-> 7] }

\* Chunks of weight up to w: a chunk weighs one plus its payload bytes.
Chunks(w) ==
  IF w < 1 THEN {}
  ELSE ReferenceSamples \cup { LiteralChunk(d) : d \in SeqsUpTo(PayloadBytes, w - 1) }

RECURSIVE ChunkLists(_)
ChunkLists(w) ==
  { <<>> } \cup
  UNION { { <<c>> \o rest : rest \in ChunkLists(w - 1 - Len(c.data)) } : c \in Chunks(w) }

\* The well-formed PatchData of size up to MaxSize.
PatchDatas ==
  UNION { UNION { { [version |-> latestPatchDataVersion,
                     oldFileName |-> o, newFileName |-> n,
                     escapeData |-> e, dataChunks |-> cs] :
                      o \in [1 .. a -> PathBytes], n \in [1 .. b -> PathBytes],
                      e \in EscapeSamples, cs \in ChunkLists(MaxSize - a - b) } :
                  b \in 0 .. (MaxSize - a) } :
          a \in 0 .. MaxSize }

\* A PatchData of another version, which writeChunks refuses.
OtherVersionPatchData == [DefaultPatchData EXCEPT !.version = 999]

Ascii(digits) == [i \in DOMAIN digits |-> 48 + digits[i]]

\* Version fields of streams that no writeChunks produced.
VersionSamples ==
  { Ascii(<<9, 9, 9>>), Ascii(<<1, 0, 0, 1>>), Ascii(<<0>>), Ascii(<<1, 0, 0, 0>>),
    Ascii(<<0, 1, 0, 0, 0>>), Ascii(<<1, 0, 0, 0, 0>>),
    Ascii(IntMaxDigits), Ascii(IntMinDigits),
    <<43>> \o Ascii(<<1, 0, 0, 0>>), <<45>> \o Ascii(<<1, 0, 0, 0>>), <<>> }

\* What follows the version field in those streams.
TailSamples ==
  { <<>>, <<13>>, delimiter, <<120>>, <<32>> \o delimiter,
    delimiter \o <<48>> \o delimiter \o delimiter \o <<120>>,
    delimiter \o <<48>> \o delimiter \o delimiter \o <<48>> \o delimiter \o delimiter
      \o Ascii(<<2, 5, 6>>) \o delimiter }

\* Streams that no writeChunks produced: the header with one byte changed,
\* and the exact header followed by a version field and a tail.
ForeignStreams ==
  { [patchFileHeader EXCEPT ![k] = (@ + 1) % 256] \o Ascii(<<1, 0, 0, 0>>) \o delimiter :
      k \in 1 .. Len(patchFileHeader) }
  \cup { patchFileHeader \o v \o t : v \in VersionSamples, t \in TailSamples }

\* Bytes appended after the last chunk record.
TrailingSamples == { <<0>>, <<13, 10>>, <<48>> }

InitCodec ==
  /\ \/ /\ pc = "write"
        /\ patchData \in PatchDatas \cup {OtherVersionPatchData}
        /\ stream = <<>>
        /\ origin = "none"
     \/ /\ pc = "read"
        /\ patchData = DefaultPatchData
        /\ stream \in ForeignStreams
        /\ origin = "foreign"
  /\ written = NoWritten
  /\ readResult = NoReadResult
  /\ source = <<>>
  /\ toBeEscaped = 0
  /\ escapeData = NoEscapeData
  /\ escaped = <<>>
  /\ unescaped = <<>>
  /\ decodeError = "none"
  /\ ctorArgs = NoCtorArgs
  /\ ctorResult = NoCtorResult

\* writeChunks(out, patchData)
WriteChunks ==
  /\ pc = "write"
  /\ written' = writeChunks(patchData)
  /\ pc' = IF written'.thrown = "none" THEN "written" ELSE "writeFailed"
  /\ UNCHANGED <<patchData, stream, origin, readResult>>
  /\ UNCHANGED <<varsEscape, varsChunk>>

\* The written file is opened for reading as it is.
OpenIntact ==
  /\ pc = "written"
  /\ stream' = written.out
  /\ origin' = "intact"
  /\ pc' = "read"
  /\ UNCHANGED <<patchData, written, readResult>>
  /\ UNCHANGED <<varsEscape, varsChunk>>

\* A proper prefix of the written file is opened for reading.
OpenTruncated ==
  /\ pc = "written"
  /\ \E n \in 0 .. (Len(written.out) - 1) : stream' = SubSeq(written.out, 1, n)
  /\ origin' = "truncated"
  /\ pc' = "read"
  /\ UNCHANGED <<patchData, written, readResult>>
  /\ UNCHANGED <<varsEscape, varsChunk>>

\* The written file followed by further bytes is opened for reading.
OpenExtended ==
  /\ pc = "written"
  /\ \E g \in TrailingSamples : stream' = written.out \o g
  /\ origin' = "extended"
  /\ pc' = "read"
  /\ UNCHANGED <<patchData, written, readResult>>
  /\ UNCHANGED <<varsEscape, varsChunk>>

\* readResult = readChunks(in)
ReadChunks ==
  /\ pc = "read"
  /\ readResult' = readChunks(stream)
  /\ pc' = "done"
  /\ UNCHANGED <<patchData, written, stream, origin>>
  /\ UNCHANGED <<varsEscape, varsChunk>>

NextCodec == WriteChunks \/ OpenIntact \/ OpenTruncated \/ OpenExtended \/ ReadChunks

SpecCodec == InitCodec /\ [][NextCodec]_vars

----------------------------------------------------------------------------
(* Properties of the escape transform, checked under SpecEscape.           *)

Contains(s, b) == \E i \in 1 .. Len(s) : s[i] = b

\* The source holds toBeEscaped and each of the three chosen bytes.
SourceHasAllFour ==
  /\ Contains(source, escapeData.toBeEscaped)
  /\ Contains(source, escapeData.substituteCharacter)
  /\ Contains(source, escapeData.escape)
  /\ Contains(source, escapeData.escape2)

\* C1: with P = findBestEscape(x, t), unescape(escape(x, P), P) is exactly x.
C1_RoundTrip == pc = "unescaped" => unescaped = source

C1_Witness ==
  /\ pc = "unescaped"
  /\ escapeData.toBeEscaped = toBeEscaped
  /\ SourceHasAllFour
  /\ Len(escaped) > Len(source)

\* C2: with P = findBestEscape(x, t), no byte of escape(x, P) equals
\* P.toBeEscaped, also when x holds t and the three chosen bytes.
C2_NoToBeEscaped ==
  pc \in {"escaped", "unescaped"} =>
    /\ escapeData.toBeEscaped = toBeEscaped
    /\ ~ Contains(escaped, escapeData.toBeEscaped)

C2_Witness ==
  /\ pc = "escaped"
  /\ SourceHasAllFour
  /\ Contains(escaped, escapeData.escape2)

\* b comes before c when bytes are ordered by (occurrence count, byte value).
Before(b, c) ==
  \/ count(source, b) < count(source, c)
  \/ count(source, b) = count(source, c) /\ b < c

\* Number of bytes other than toBeEscaped that come before b.
Rank(b) == Cardinality({ c \in ByteValue \ {toBeEscaped} : Before(c, b) })

\* C3: findBestEscape returns three pairwise distinct bytes, all different from
\* t, that are the first, second and third smallest bytes other than t in the
\* order (occurrence count, byte value).
C3_Selection ==
  pc # "start" =>
    /\ escapeData.toBeEscaped = toBeEscaped
    /\ escapeData.substituteCharacter # toBeEscaped
    /\ escapeData.escape # toBeEscaped
    /\ escapeData.escape2 # toBeEscaped
    /\ escapeData.substituteCharacter # escapeData.escape
    /\ escapeData.substituteCharacter # escapeData.escape2
    /\ escapeData.escape # escapeData.escape2
    /\ Rank(escapeData.substituteCharacter) = 0
    /\ Rank(escapeData.escape) = 1
    /\ Rank(escapeData.escape2) = 2

\* A selection where the count decides against the byte value and a tie in
\* count is broken by the byte value.
C3_Witness ==
  /\ pc = "found"
  /\ count(source, escapeData.substituteCharacter) > 0
  /\ count(source, escapeData.substituteCharacter) = count(source, escapeData.escape)
  /\ count(source, escapeData.escape) < count(source, escapeData.escape2)
  /\ escapeData.escape2 < escapeData.substituteCharacter
  /\ count(source, toBeEscaped) = 0

\* C4: estimatedNewSize is |x| + count(substituteCharacter) + count(escape),
\* and escape(x, P) has exactly that length.
C4_EstimateExact ==
  /\ pc # "start" =>
       escapeData.estimatedNewSize =
         Len(source) + count(source, escapeData.substituteCharacter)
                     + count(source, escapeData.escape)
  /\ pc \in {"escaped", "unescaped"} => Len(escaped) = escapeData.estimatedNewSize

C4_Witness ==
  /\ pc = "escaped"
  /\ SourceHasAllFour
  /\ escapeData.estimatedNewSize = Len(source) + 2

\* The escape-pending flag of unescape before it reads position i of esc.
PendingBefore(esc, ed, i) ==
  unescapeLoop(SubSeq(esc, 1, i - 1), ed, [result |-> <<>>, escapeOn |-> FALSE]).escapeOn

\* esc is malformed: an escape byte read with the flag clear is the last byte,
\* or is followed by a byte that is neither escape nor escape2.
Malformed(esc, ed) ==
  \E i \in 1 .. Len(esc) :
    /\ esc[i] = ed.escape
    /\ ~ PendingBefore(esc, ed, i)
    /\ \/ i = Len(esc)
       \/ esc[i + 1] \notin {ed.escape, ed.escape2}

\* C6: unescape fails with EscapeDecodeError on every malformed input.
C6_MalformedRejected ==
  (pc = "decoded" /\ Malformed(source, escapeData)) =>
    decodeError = "EscapeDecodeError"

----------------------------------------------------------------------------
(* Properties of the DataChunk constructor, checked under SpecChunk.       *)

\* The word exceeds 0xFFFFFFFF: some bit above the low 32 is set.
ExceedsUInt32(word) == word[3] # 0 \/ word[4] # 0

\* The word is the literal sentinel, all bits set.
IsSentinel(word) == \A i \in 1 .. 4 : word[i] = LimbMax

\* C10: the constructor fails with LengthOverflow exactly when length exceeds
\* 0xFFFFFFFF, or sourcePosition exceeds 0xFFFFFFFF and is not the literal
\* sentinel; otherwise it stores length and sourcePosition modulo 2^32, so the
\* sentinel is stored as 0xFFFFFFFF.
C10_CtorOverflow ==
  pc = "constructed" =>
    LET overflow ==
          \/ ExceedsUInt32(ctorArgs.length)
          \/ ExceedsUInt32(ctorArgs.sourcePosition) /\ ~ IsSentinel(ctorArgs.sourcePosition)
    IN  /\ overflow <=> ctorResult.thrown = "std::length_error"
        /\ ~ overflow =>
             /\ ctorResult.thrown = "none"
             /\ ctorResult.chunk.length[1] = ctorArgs.length[1]
             /\ ctorResult.chunk.length[2] = ctorArgs.length[2]
             /\ ctorResult.chunk.sourcePosition[1] = ctorArgs.sourcePosition[1]
             /\ ctorResult.chunk.sourcePosition[2] = ctorArgs.sourcePosition[2]
             /\ ctorResult.chunk.data = ctorArgs.data
             /\ IsSentinel(ctorArgs.sourcePosition) =>
                  ctorResult.chunk.sourcePosition = <<LimbMax, LimbMax>>

\* The literal sentinel is accepted and stored as 0xFFFFFFFF.
C10_Witness ==
  /\ pc = "constructed"
  /\ IsSentinel(ctorArgs.sourcePosition)
  /\ ctorArgs.length = <<LimbMax, LimbMax, 0, 0>>
  /\ ctorResult.thrown = "none"
  /\ ctorResult.chunk.sourcePosition = <<LimbMax, LimbMax>>

----------------------------------------------------------------------------
(* Properties of the patch file codec, checked under SpecCodec.            *)

\* The error kinds of the specification, as the exceptions of the code.
MalformedHeader(error) == error = HeaderNotFound
UnsupportedVersion(error) == error = UnsupportedVersionError
TruncatedInput(error) ==
  error = [type |-> "std::ios_base::failure", what |-> "failbit eofbit"]

\* C5: for every well-formed PatchData p, readChunks of the bytes written by
\* writeChunks(p) succeeds and returns p: version, both paths, the four escape
\* bytes and the ordered chunk list, whatever bytes the fields hold.
C5_CodecRoundTrip ==
  (pc = "done" /\ origin = "intact") =>
    /\ readResult.error = NoError
    /\ readResult.patchData.version = patchData.version
    /\ readResult.patchData.oldFileName = patchData.oldFileName
    /\ readResult.patchData.newFileName = patchData.newFileName
    /\ readResult.patchData.escapeData.toBeEscaped = patchData.escapeData.toBeEscaped
    /\ readResult.patchData.escapeData.substituteCharacter
         = patchData.escapeData.substituteCharacter
    /\ readResult.patchData.escapeData.escape = patchData.escapeData.escape
    /\ readResult.patchData.escapeData.escape2 = patchData.escapeData.escape2
    /\ readResult.patchData.dataChunks = patchData.dataChunks

\* A reference chunk whose length field holds CR, LF, a digit and a tab,
\* followed by a literal chunk whose payload is a digit.
C5_Witness ==
  /\ pc = "done"
  /\ origin = "intact"
  /\ readResult.error = NoError
  /\ Len(patchData.dataChunks) = 2
  /\ writeLittleEndianUInt32(patchData.dataChunks[1].length) = <<13, 10, 48, 9>>
  /\ patchData.dataChunks[2].data = <<57>>
  /\ readResult.patchData.dataChunks[2].data = <<57>>
  /\ patchData.escapeData.toBeEscaped = 255

\* C7: a well-formed patch file followed by further bytes is refused.
C7_TrailingRejected ==
  (pc = "done" /\ origin = "extended") => readResult.error # NoError

HasHeader(bytes) ==
  /\ Len(bytes) >= Len(patchFileHeader)
  /\ SubSeq(bytes, 1, Len(patchFileHeader)) = patchFileHeader

\* The decimal digits that follow the header, without leading zeros.
VersionDigits(bytes) ==
  LET first == Len(patchFileHeader) + 1
      end   == DigitRunEnd(bytes, first)
  IN  StripZeros([k \in 1 .. (end - first) |-> bytes[first + k - 1] - 48])

HasVersionField(bytes) ==
  /\ HasHeader(bytes)
  /\ Len(bytes) > Len(patchFileHeader)
  /\ IsDigit(bytes[Len(patchFileHeader) + 1])

\* Some leading byte of the stream differs from the header.
HeaderDiffers(bytes) ==
  \E k \in 1 .. Len(patchFileHeader) : k <= Len(bytes) /\ bytes[k] # patchFileHeader[k]

\* C8: the exact header followed by a decimal version other than 1000 fails
\* with UnsupportedVersion whatever follows; a stream that differs from the
\* header in some position fails with MalformedHeader before the version is
\* read.
C8_VersionGate ==
  pc = "done" =>
    /\ (HasVersionField(stream) /\ VersionDigits(stream) # <<1, 0, 0, 0>>) =>
         UnsupportedVersion(readResult.error)
    /\ HeaderDiffers(stream) =>
         /\ MalformedHeader(readResult.error)
         /\ readResult.consumed <= Len(patchFileHeader)

\* C9: readChunks of a proper prefix of a written patch file fails with
\* TruncatedInput.
C9_TruncatedFails ==
  (pc = "done" /\ origin = "truncated") => TruncatedInput(readResult.error)

\* The prefix ends inside the version field: after its first digit and
\* before its last.
EndsInsideVersion(bytes) ==
  /\ Len(bytes) > Len(patchFileHeader)
  /\ Len(bytes) < Len(patchFileHeader) + Len(Decimal(supportedVersion))

\* C9 as amended: readChunks of a proper prefix of a written patch file never
\* returns a PatchData; it fails with TruncatedInput, except that a prefix
\* ending inside the version field fails with UnsupportedVersion.
C9_TruncatedFailsAmended ==
  (pc = "done" /\ origin = "truncated") =>
    IF EndsInsideVersion(stream)
    THEN UnsupportedVersion(readResult.error)
    ELSE TruncatedInput(readResult.error)

\* The stream ends one byte before the end of the payload of the last,
\* literal, chunk.
C9_Witness ==
  /\ pc = "done"
  /\ origin = "truncated"
  /\ Len(patchData.dataChunks) = 2
  /\ Len(patchData.dataChunks[2].data) = 1
  /\ Len(stream) = Len(written.out) - 1
  /\ TruncatedInput(readResult.error)

====
